---- MODULE Spec2Model ----
(***************************************************************************)
(* Egress-validation lifecycle of the GCP client                           *)
(* (pkg/cloudclient/gcp/private.go): validateEgress creates a probe        *)
(* instance, polls it to RUNNING, polls its serial console until the       *)
(* userdata end marker shows up, parses the console text, and stops the    *)
(* instance.  Every cloud call is an input of the model: its outcome is    *)
(* chosen from a small set by the action that issues it.                   *)
(*                                                                         *)
(* Text is modelled as a sequence of atoms (words, a blank, a line feed);  *)
(* no word of the vocabulary is a substring of another one, so substring   *)
(* search on characters and on atoms agree.                                *)
(***************************************************************************)
EXTENDS Integers, Sequences, FiniteSets, TLC

VARIABLES
    pc,            \* position of the one control thread inside validateEgress
    err,           \* the error validateEgress holds after create / wait / analysis
    output,        \* c.output: [errors, exceptions, failures]
    totalTime,     \* seconds slept so far by the running PollImmediate
    instResp,      \* last answer of Instances.Get in describeComputeServiceInstances
    serialResp,    \* the answer of GetSerialPortOutput the console condition holds
    inserted,      \* cloud side: Instances.Insert succeeded
    stopCalls,     \* cloud side: number of Instances.Stop calls
    path,          \* which exit of validateEgress the run took
    timeout,       \* the timeout argument of validateEgress, in seconds
    cancelled,     \* the caller cancelled ctx
    stopResp,      \* cloud side: the answer of the last Instances.Stop call
    fetchIssued,   \* cloud side: a GetSerialPortOutput call was made in this run
    prior          \* c.output as it was when this run was called

\* what one run works on
run == <<pc, err, output, totalTime, instResp, serialResp, inserted, stopCalls,
         path>>

vars == <<pc, err, output, totalTime, instResp, serialResp, inserted, stopCalls,
          path, timeout, cancelled, stopResp, fetchIssued, prior>>

-----------------------------------------------------------------------------
(* Bounds of the model *)

\* longest console text, in lines
MaxLines == 3

\* most entries a result may hold for the client to be used for another run
MaxCarried == 1

-----------------------------------------------------------------------------
(* Errors: a message and the text of the error it wraps *)

E(msg, cause) == [msg |-> msg, cause |-> cause]

Nil == E("nil", "")

\* what a failing cloud call can return
ApiErrors == {"googleapi: Error 403", "googleapi: Error 503"}

\* the outcome of a cloud call: "" is success, otherwise the API error
CallResults == {""} \cup ApiErrors

ApiErr(r) == IF r = "" THEN Nil ELSE E(r, "")

\* fmt's %v of an error value
ErrText(e) == IF e = Nil THEN "<nil>" ELSE e.msg

TimedOut == E("timed out waiting for the condition", "")

-----------------------------------------------------------------------------
(* c.output: the result the caller receives *)

EmptyOutput == [errors |-> <<>>, exceptions |-> <<>>, failures |-> <<>>]

AddError(out, e) ==
    IF e = Nil THEN out ELSE [out EXCEPT !.errors = Append(@, e)]

AddException(out, e) ==
    IF e = Nil THEN out ELSE [out EXCEPT !.exceptions = Append(@, e)]

SetEgressFailures(out, fs) == [out EXCEPT !.failures = @ \o fs]

-----------------------------------------------------------------------------
(* Console text *)

SP == " "
LF == "<LF>"

\* the two characters backslash and n that Go's quoting writes for a line feed
EscLF == "\\n"

IsSpace(a) == a \in {SP, LF}

userdataEndVerifier == <<"USERDATA", SP, "END">>

UnableToReach == <<"Unable", SP, "to", SP, "reach", SP>>

Hosts == {"host1.example.com", "host2.example.com"}

\* the lines a probe script writes to the console
LineKinds ==
    {userdataEndVerifier, <<"Failed", SP, "to", SP, "connect">>,
     <<"Could", SP, "not", SP, "resolve", SP, "host">>, <<"ok">>}
    \cup {UnableToReach \o <<h>> : h \in Hosts}

RECURSIVE JoinLines(_)
JoinLines(ls) ==
    IF ls = <<>> THEN <<>> ELSE Head(ls) \o <<LF>> \o JoinLines(Tail(ls))

\* every console text of at most MaxLines lines, each line ended by a line feed
ConsoleContents ==
    {JoinLines(ls) : ls \in UNION {[1..n -> LineKinds] : n \in 0..MaxLines}}

\* pat occurs in s at position i
MatchAt(s, i, pat) ==
    /\ i + Len(pat) - 1 <= Len(s)
    /\ \A k \in 1..Len(pat) : s[i + k - 1] = pat[k]

Contains(s, pat) == \E i \in 1..Len(s) : MatchAt(s, i, pat)

\* strconv.Quote on the atoms: a line feed becomes the escape sequence
Quote(s) == [i \in 1..Len(s) |-> IF s[i] = LF THEN EscLF ELSE s[i]]

\* fmt.Sprintf("%#v", output) of a *compute.SerialPortOutput
GoSyntax(contents) ==
    <<"&compute.SerialPortOutput{Contents:", "\"">> \o Quote(contents)
        \o <<"\",", SP, "Kind:\"compute#serialPortOutput\",", SP, "Next:0}">>

\* reVerify.FindString(scriptOutput): the match, or the empty string
FindString(s, pat) == IF Contains(s, pat) THEN pat ELSE <<>>

\* the lines of s: the pieces between line feeds
RECURSIVE SplitLines(_, _)
SplitLines(s, cur) ==
    IF s = <<>> THEN (IF cur = <<>> THEN <<>> ELSE <<cur>>)
    ELSE IF Head(s) = LF THEN <<cur>> \o SplitLines(Tail(s), <<>>)
    ELSE SplitLines(Tail(s), Append(cur, Head(s)))

\* the indicators with "Could not" forgotten
FailureIndicatorsShort ==
    {<<"Cannot">>, <<"Failed">>, <<"command", SP, "not", SP, "found">>}

FailureIndicators ==
    {<<"Cannot">>, <<"Could", SP, "not">>, <<"Failed">>,
     <<"command", SP, "not", SP, "found">>}

HasIndicator(line) == \E p \in FailureIndicators : Contains(line, p)

\* rgx.FindAllStringSubmatch(scriptOutput, -1): with (?m) and a dot that stops at
\* a line feed there is one match for each line holding an indicator
RECURSIVE MatchingLines(_)
MatchingLines(ls) ==
    IF ls = <<>> THEN <<>>
    ELSE (IF HasIndicator(Head(ls)) THEN <<Head(ls)>> ELSE <<>>)
             \o MatchingLines(Tail(ls))

notFoundMatch(scriptOutput) == MatchingLines(SplitLines(scriptOutput, <<>>))

\* last position of the run of non-space atoms that starts at k
RECURSIVE RunEnd(_, _)
RunEnd(s, k) ==
    IF k + 1 <= Len(s) /\ ~IsSpace(s[k + 1]) THEN RunEnd(s, k + 1) ELSE k

\* reUnreachableErrors.FindAllString(scriptOutput, -1) from position i on: the
\* whole text of every leftmost non-overlapping match of `Unable to reach (\S+)`
RECURSIVE FindAllString(_, _)
FindAllString(s, i) ==
    IF i > Len(s) THEN <<>>
    ELSE IF /\ MatchAt(s, i, UnableToReach)
            /\ i + Len(UnableToReach) <= Len(s)
            /\ ~IsSpace(s[i + Len(UnableToReach)])
         THEN LET j == RunEnd(s, i + Len(UnableToReach))
              IN  <<SubSeq(s, i, j)>> \o FindAllString(s, j + 1)
         ELSE FindAllString(s, i + 1)

-----------------------------------------------------------------------------
(* Instance status *)

\* the statuses of the provider's life cycle, no status yet, a status the code
\* does not know, and the two strings the code uses as its own codes
Statuses ==
    {"PROVISIONING", "STAGING", "RUNNING", "STOPPING", "STOPPED", "TERMINATED",
     "SUSPENDED", "", "REPAIRING", "FATAL", "PERMISSION DENIED"}

FatalStatuses == {"STOPPING", "STOPPED", "TERMINATED", "SUSPENDED"}

\* what Instances.Get(...).Do() can answer: an error, or an instance with a status
InstResponses ==
    {[err |-> e, Status |-> ""] : e \in ApiErrors}
        \cup {[err |-> "", Status |-> s] : s \in Statuses}

\* what Instances.GetSerialPortOutput(...).Do() can answer
SerialResponses ==
    {[err |-> e, Contents |-> <<>>] : e \in ApiErrors}
        \cup {[err |-> "", Contents |-> c] : c \in ConsoleContents}

\* describe handing a failed call on with an empty code
describeErrorUnclassified(resp) ==
    IF resp.err # "" THEN [code |-> "", err |-> ApiErr(resp.err)]
    ELSE IF resp.Status \in FatalStatuses
         THEN [code |-> "FATAL", err |-> E(resp.Status, "")]
         ELSE [code |-> resp.Status, err |-> Nil]

\* describe with SUSPENDED missing from the fatal case of the switch
describeMissingSuspended(resp) ==
    IF resp.err # "" THEN [code |-> "PERMISSION DENIED", err |-> ApiErr(resp.err)]
    ELSE IF resp.Status \in FatalStatuses \ {"SUSPENDED"}
         THEN [code |-> "FATAL", err |-> E(resp.Status, "")]
         ELSE [code |-> resp.Status, err |-> Nil]

\* describeComputeServiceInstances: (code, error) for one answer of Instances.Get
describeComputeServiceInstances(resp) ==
    IF resp.err # "" THEN [code |-> "PERMISSION DENIED", err |-> ApiErr(resp.err)]
    ELSE IF resp.Status \in FatalStatuses
         THEN [code |-> "FATAL", err |-> E(resp.Status, "")]
         ELSE [code |-> resp.Status, err |-> Nil]

\* the readiness condition taking STAGING for a running instance
readyConditionStaging(resp) ==
    LET d == describeComputeServiceInstances(resp) IN
    CASE d.code \in {"RUNNING", "STAGING"} -> [done |-> TRUE, err |-> Nil]
      [] d.code = "FATAL" ->
            [done |-> FALSE,
             err |-> E("Instance already exists with state. Please run again",
                       ErrText(d.err))]
      [] d.code = "PERMISSION DENIED" ->
            [done |-> FALSE,
             err |-> E("missing required permissions for account", ErrText(d.err))]
      [] OTHER ->
            IF d.err # Nil THEN [done |-> FALSE, err |-> d.err]
            ELSE [done |-> FALSE, err |-> Nil]

\* the condition function waitForComputeServiceInstanceCompletion polls with
readyCondition(resp) ==
    LET d == describeComputeServiceInstances(resp) IN
    CASE d.code = "RUNNING" -> [done |-> TRUE, err |-> Nil]
      [] d.code = "FATAL" ->
            [done |-> FALSE,
             err |-> E("Instance already exists with state. Please run again",
                       ErrText(d.err))]
      [] d.code = "PERMISSION DENIED" ->
            [done |-> FALSE,
             err |-> E("missing required permissions for account", ErrText(d.err))]
      [] OTHER ->
            IF d.err # Nil THEN [done |-> FALSE, err |-> d.err]
            ELSE [done |-> FALSE, err |-> Nil]

-----------------------------------------------------------------------------
(* Console analysis *)

EgressURLError ==
    E("egressURL error",
      "internet connectivity problem: please ensure there's internet access in given vpc subnets")

\* the console condition trying again after a failed fetch
consoleConditionRetries(out, resp) ==
    IF resp.err # "" THEN [done |-> FALSE, err |-> Nil, out |-> out]
    ELSE
      LET scriptOutput == GoSyntax(resp.Contents)
          verifyMatch == FindString(scriptOutput, userdataEndVerifier)
      IN
      IF Len(verifyMatch) < 1 THEN [done |-> FALSE, err |-> Nil, out |-> out]
      ELSE
        LET out1 == IF Len(notFoundMatch(scriptOutput)) > 0
                    THEN AddException(out, EgressURLError)
                    ELSE out
        IN [done |-> TRUE, err |-> Nil,
            out |-> SetEgressFailures(out1, FindAllString(scriptOutput, 1))]

\* the console condition without the check for the end marker
consoleConditionNoGate(out, resp) ==
    IF resp.err # "" THEN [done |-> FALSE, err |-> ApiErr(resp.err), out |-> out]
    ELSE
      LET scriptOutput == GoSyntax(resp.Contents)
          out1 == IF Len(notFoundMatch(scriptOutput)) > 0
                  THEN AddException(out, EgressURLError)
                  ELSE out
      IN [done |-> TRUE, err |-> Nil,
          out |-> SetEgressFailures(out1, FindAllString(scriptOutput, 1))]

\* the condition function findUnreachableEndpoints polls with: done, error and
\* c.output after one answer of GetSerialPortOutput
consoleCondition(out, resp) ==
    IF resp.err # "" THEN [done |-> FALSE, err |-> ApiErr(resp.err), out |-> out]
    ELSE
      LET scriptOutput == GoSyntax(resp.Contents)
          verifyMatch == FindString(scriptOutput, userdataEndVerifier)
      IN
      IF Len(scriptOutput) < 1 THEN [done |-> FALSE, err |-> Nil, out |-> out]
      ELSE IF Len(verifyMatch) < 1 THEN [done |-> FALSE, err |-> Nil, out |-> out]
      ELSE
        LET out1 == IF Len(notFoundMatch(scriptOutput)) > 0
                    THEN AddException(out, EgressURLError)
                    ELSE out
        IN [done |-> TRUE, err |-> Nil,
            out |-> SetEgressFailures(out1, FindAllString(scriptOutput, 1))]

-----------------------------------------------------------------------------
(* helpers.PollImmediate(interval, timeout, condition) *)

\* seconds between two invocations of the readiness condition, and its deadline
ReadyInterval == 5
ReadyTimeout == 120

\* the same for the console condition
ConsoleInterval == 30
ConsoleTimeout == 240

\* a loop that gives up once half the timeout is slept
PollContinueHalf(t, deadline) == 2 * t < deadline

\* the loop goes on while the time slept is short of the timeout
PollContinue(t, deadline) == t < deadline

\* one sleep of the loop
PollSleep(t, interval) == t + interval

-----------------------------------------------------------------------------
(* validateEgress *)

\* the console condition holds no answer between two passes
NoSerial == [err |-> "", Contents |-> <<>>]

\* no answer of Instances.Get yet
NoInst == [err |-> "", Status |-> ""]

\* the timeouts a caller asks for, in seconds
RequestTimeouts == {60, 300}

\* what a call made with a cancelled ctx returns
ContextCanceled == "context canceled"

\* the outcomes of a call made with .Context(ctx)
CtxResults == IF cancelled THEN {ContextCanceled} ELSE CallResults

CtxInstResponses ==
    IF cancelled THEN {[err |-> ContextCanceled, Status |-> ""]} ELSE InstResponses

CtxSerialResponses ==
    IF cancelled THEN {[err |-> ContextCanceled, Contents |-> <<>>]}
    ELSE SerialResponses

Init ==
    /\ pc = "idle"
    /\ err = Nil
    /\ output = EmptyOutput
    /\ totalTime = 0
    /\ instResp = NoInst
    /\ serialResp = NoSerial
    /\ inserted = FALSE
    /\ stopCalls = 0
    /\ path = "none"
    /\ timeout \in RequestTimeouts
    /\ cancelled = FALSE
    /\ stopResp = ""
    /\ fetchIssued = FALSE
    /\ prior = EmptyOutput

\* terminateComputeServiceInstance with the error of the stop call dropped
terminateDropsError(out, r) == out

\* terminateComputeServiceInstance: c.output after a stop call that answered r
terminateComputeServiceInstance(out, r) == AddError(out, ApiErr(r))

\* the deadline of the readiness poll, were it the timeout of the request
readyTimeoutOfRequest(requestTimeout) == requestTimeout

\* the deadline waitForComputeServiceInstanceCompletion gives its poll
readyTimeout(requestTimeout) == ReadyTimeout

\* the caller enters validateEgress; userdata and image never fail
Call ==
    /\ pc = "idle"
    /\ pc' = "insert"
    /\ UNCHANGED <<err, output, totalTime, instResp, serialResp, inserted,
                   stopCalls, path>>
    /\ UNCHANGED <<timeout, cancelled, stopResp, fetchIssued, prior>>

\* createComputeServiceInstance: Instances.Insert
Insert ==
    /\ pc = "insert"
    /\ \E r \in CtxResults :
          IF r = ""
          THEN /\ inserted' = TRUE
               /\ pc' = "getFingerprint"
               /\ err' = err
          ELSE /\ inserted' = inserted
               /\ pc' = "createFailed"
               /\ err' = E("unable to create instance", r)
    /\ UNCHANGED <<output, totalTime, instResp, serialResp, stopCalls, path>>
    /\ UNCHANGED <<timeout, cancelled, stopResp, fetchIssued, prior>>

\* createComputeServiceInstance: Instances.Get for the label fingerprint, the one
\* call made without ctx; a failed call leaves inst nil and reading
\* inst.LabelFingerprint panics
GetFingerprint ==
    /\ pc = "getFingerprint"
    /\ \E r \in CallResults :
          IF r = ""
          THEN pc' = "setLabels" /\ path' = path
          ELSE pc' = "panicked" /\ path' = "panic"
    /\ UNCHANGED <<err, output, totalTime, instResp, serialResp, inserted,
                   stopCalls>>
    /\ UNCHANGED <<timeout, cancelled, stopResp, fetchIssued, prior>>

\* createComputeServiceInstance: Instances.SetLabels
SetLabels ==
    /\ pc = "setLabels"
    /\ \E r \in CtxResults :
          IF r = ""
          THEN pc' = "wait" /\ err' = Nil
          ELSE pc' = "createFailed" /\ err' = E("Unable to create labels", r)
    /\ totalTime' = 0   \* the readiness poll starts with nothing slept
    /\ UNCHANGED <<output, instResp, serialResp, inserted, stopCalls, path>>
    /\ UNCHANGED <<timeout, cancelled, stopResp, fetchIssued, prior>>

\* the create-error exit without the call of terminate
CreateFailedNoStop ==
    /\ pc = "createFailed"
    /\ output' = AddError(output, err)
    /\ pc' = "returned"
    /\ path' = "createFailed"
    /\ UNCHANGED <<err, totalTime, instResp, serialResp, inserted, stopCalls>>
    /\ UNCHANGED <<timeout, cancelled, stopResp, fetchIssued, prior>>

\* validateEgress after create returned an error: terminate, record, return
CreateFailed ==
    /\ pc = "createFailed"
    /\ \E r \in CtxResults :
          /\ output' = AddError(terminateComputeServiceInstance(output, r), err)
          /\ stopResp' = r
    /\ stopCalls' = stopCalls + 1
    /\ pc' = "returned"
    /\ path' = "createFailed"
    /\ UNCHANGED <<err, totalTime, instResp, serialResp, inserted>>
    /\ UNCHANGED <<timeout, cancelled, fetchIssued, prior>>

\* one pass of the readiness poll: the condition calls describe once
WaitTick ==
    /\ pc = "wait"
    /\ PollContinue(totalTime, readyTimeout(timeout))
    /\ \E resp \in CtxInstResponses :
          LET c == readyCondition(resp) IN
          /\ instResp' = resp
          /\ IF c.err # Nil
             THEN pc' = "notReady" /\ err' = c.err /\ totalTime' = totalTime
             ELSE IF c.done
             THEN pc' = "console" /\ err' = Nil /\ totalTime' = 0
             ELSE /\ pc' = "wait"
                  /\ err' = err
                  /\ totalTime' = PollSleep(totalTime, ReadyInterval)
    /\ UNCHANGED <<output, serialResp, inserted, stopCalls, path>>
    /\ UNCHANGED <<timeout, cancelled, stopResp, fetchIssued, prior>>

\* the readiness poll runs out of time
WaitExpired ==
    /\ pc = "wait"
    /\ ~PollContinue(totalTime, readyTimeout(timeout))
    /\ pc' = "notReady"
    /\ err' = TimedOut
    /\ UNCHANGED <<output, totalTime, instResp, serialResp, inserted, stopCalls,
                   path>>
    /\ UNCHANGED <<timeout, cancelled, stopResp, fetchIssued, prior>>

\* the readiness-error exit without the call of terminate
NotReadyNoStop ==
    /\ pc = "notReady"
    /\ output' = AddError(output, err)
    /\ pc' = "returned"
    /\ path' = "notReady"
    /\ UNCHANGED <<err, totalTime, instResp, serialResp, inserted, stopCalls>>
    /\ UNCHANGED <<timeout, cancelled, stopResp, fetchIssued, prior>>

\* validateEgress after the readiness wait returned an error: terminate, record,
\* return
NotReady ==
    /\ pc = "notReady"
    /\ \E r \in CtxResults :
          /\ output' = AddError(terminateComputeServiceInstance(output, r), err)
          /\ stopResp' = r
    /\ stopCalls' = stopCalls + 1
    /\ pc' = "returned"
    /\ path' = "notReady"
    /\ UNCHANGED <<err, totalTime, instResp, serialResp, inserted>>
    /\ UNCHANGED <<timeout, cancelled, fetchIssued, prior>>

\* a pass of the console poll starts: the condition calls GetSerialPortOutput and
\* the answer arrives
ConsoleFetch ==
    /\ pc = "console"
    /\ PollContinue(totalTime, ConsoleTimeout)
    /\ \E resp \in CtxSerialResponses : serialResp' = resp
    /\ pc' = "fetched"
    /\ fetchIssued' = TRUE
    /\ UNCHANGED <<err, output, totalTime, instResp, inserted, stopCalls, path>>
    /\ UNCHANGED <<timeout, cancelled, stopResp, prior>>

\* the rest of the pass: the condition works on the answer and the poll acts on
\* what it returns.  The answer is a local of the condition, gone when the poll
\* sleeps; the one of the last pass stays for the properties below.
ConsoleTick ==
    /\ pc = "fetched"
    /\ LET c == consoleCondition(output, serialResp) IN
          /\ output' = c.out
          /\ IF c.err # Nil
             THEN /\ pc' = "analysed"
                  /\ err' = c.err
                  /\ UNCHANGED <<totalTime, serialResp>>
             ELSE IF c.done
             THEN /\ pc' = "analysed"
                  /\ err' = Nil
                  /\ UNCHANGED <<totalTime, serialResp>>
             ELSE /\ pc' = "console"
                  /\ err' = err
                  /\ totalTime' = PollSleep(totalTime, ConsoleInterval)
                  /\ serialResp' = NoSerial
    /\ UNCHANGED <<instResp, inserted, stopCalls, path>>
    /\ UNCHANGED <<timeout, cancelled, stopResp, fetchIssued, prior>>

\* the console poll runs out of time
ConsoleExpired ==
    /\ pc = "console"
    /\ ~PollContinue(totalTime, ConsoleTimeout)
    /\ pc' = "analysed"
    /\ err' = TimedOut
    /\ UNCHANGED <<output, totalTime, instResp, serialResp, inserted, stopCalls,
                   path>>
    /\ UNCHANGED <<timeout, cancelled, stopResp, fetchIssued, prior>>

\* the last exit with the error of findUnreachableEndpoints dropped
FinishDropsError ==
    /\ pc = "analysed"
    /\ \E r \in CtxResults :
          /\ output' = terminateComputeServiceInstance(output, r)
          /\ stopResp' = r
    /\ stopCalls' = stopCalls + 1
    /\ pc' = "returned"
    /\ path' = IF err = Nil THEN "analysed" ELSE "analysisFailed"
    /\ UNCHANGED <<err, totalTime, instResp, serialResp, inserted>>
    /\ UNCHANGED <<timeout, cancelled, fetchIssued, prior>>

\* validateEgress after findUnreachableEndpoints: record its error, terminate,
\* return
Finish ==
    /\ pc = "analysed"
    /\ \E r \in CtxResults :
          /\ output' = terminateComputeServiceInstance(AddError(output, err), r)
          /\ stopResp' = r
    /\ stopCalls' = stopCalls + 1
    /\ pc' = "returned"
    /\ path' = IF err = Nil THEN "analysed" ELSE "analysisFailed"
    /\ UNCHANGED <<err, totalTime, instResp, serialResp, inserted>>
    /\ UNCHANGED <<timeout, cancelled, fetchIssued, prior>>

Next ==
    \/ Call
    \/ Insert
    \/ GetFingerprint
    \/ SetLabels
    \/ CreateFailed
    \/ WaitTick
    \/ WaitExpired
    \/ NotReady
    \/ ConsoleFetch
    \/ ConsoleTick
    \/ ConsoleExpired
    \/ Finish

Spec == Init /\ [][Next]_vars

\* the one control thread keeps running and every cloud call returns
FairSpec == Spec /\ WF_vars(Next)

\* the caller cancels ctx while the run is under way
Cancel ==
    /\ pc \notin {"idle", "returned", "panicked"}
    /\ ~cancelled
    /\ cancelled' = TRUE
    /\ UNCHANGED <<run, timeout, stopResp, fetchIssued, prior>>

NextCancel == Next \/ Cancel

\* the runs of a caller that may cancel
SpecCancel == Init /\ [][NextCancel]_vars

\* the number of entries of a result
Entries(out) == Len(out.errors) + Len(out.exceptions) + Len(out.failures)

\* the caller calls validateEgress once more on the same client, with a new ctx
\* and any timeout; c.output is the client's and stays as the last run left it
Again ==
    /\ pc = "returned"
    /\ Entries(output) <= MaxCarried
    /\ pc' = "idle"
    /\ prior' = output
    /\ err' = Nil
    /\ totalTime' = 0
    /\ instResp' = NoInst
    /\ serialResp' = NoSerial
    /\ inserted' = FALSE
    /\ stopCalls' = 0
    /\ path' = "none"
    /\ timeout' \in RequestTimeouts
    /\ cancelled' = FALSE
    /\ stopResp' = ""
    /\ fetchIssued' = FALSE
    /\ UNCHANGED output

NextAgain == Next \/ Again

\* the runs of a caller that uses its client again
SpecAgain == Init /\ [][NextAgain]_vars

-----------------------------------------------------------------------------
(* Properties *)

\* the run is back with its caller: validateEgress returned, or a panic unwound it
BackWithCaller == pc \in {"returned", "panicked"}

\* C1: whenever a run is back with its caller, the probe instance is absent (the
\* insert never succeeded) or a stop call has been issued for it.
C1_AbsentOrStopped == BackWithCaller => (~inserted \/ stopCalls >= 1)

\* C2: on the exits after a successful create (readiness wait failed or timed
\* out, console analysis succeeded, console analysis failed or timed out) the
\* stop call has been issued exactly once when validateEgress returns.
C2_TerminateExactlyOnce ==
    (pc = "returned" /\ path \in {"notReady", "analysed", "analysisFailed"})
        => (inserted /\ stopCalls = 1)

\* a run whose readiness wait timed out has returned, with one stop call
C2_Witness ==
    /\ pc = "returned"
    /\ path = "notReady"
    /\ err = TimedOut
    /\ stopCalls = 1

\* C3 as stated: when create returns an error, validateEgress returns with the
\* error recorded and without ever issuing a stop call.
C3_NoTerminateAfterCreateError ==
    (pc = "returned" /\ path = "createFailed")
        => /\ stopCalls = 0
           /\ \E i \in 1..Len(output.errors) : output.errors[i] = err

\* C3 as amended: when create returns an error, validateEgress makes no describe
\* and no console call, issues exactly one stop call, and returns with the create
\* error recorded as the last error of the result.
C3_CreateErrorTerminatesOnce ==
    (pc = "returned" /\ path = "createFailed")
        => /\ stopCalls = 1
           /\ err.msg \in {"unable to create instance", "Unable to create labels"}
           /\ Len(output.errors) >= 1
           /\ output.errors[Len(output.errors)] = err
           /\ output.exceptions = <<>>
           /\ output.failures = <<>>
           /\ instResp = NoInst
           /\ serialResp = NoSerial
           /\ totalTime = 0

\* the insert call failed, no instance exists, and the run returned after one
\* stop call
C3_Witness ==
    /\ pc = "returned"
    /\ path = "createFailed"
    /\ ~inserted
    /\ err.msg = "unable to create instance"
    /\ stopCalls = 1

\* C4: no run ends in a crash, and when validateEgress is back with its caller
\* every control error it met is one of the result's recorded errors.
C4_ControlErrorsRecorded ==
    /\ pc # "panicked"
    /\ (pc = "returned" /\ err # Nil)
          => \E i \in 1..Len(output.errors) : output.errors[i] = err

\* a pass of the readiness poll is about to call describe
DescribePass == pc = "wait" /\ PollContinue(totalTime, ReadyTimeout)

\* C5: a pass of the readiness poll whose describe call observes STOPPING,
\* STOPPED, TERMINATED or SUSPENDED ends the wait on that pass with the error of
\* a fatal state, whatever the earlier passes observed; it never moves on to the
\* console analysis.
C5_FatalStatusAborts ==
    [][(DescribePass /\ instResp'.err = ""
            /\ instResp'.Status \in {"STOPPING", "STOPPED", "TERMINATED", "SUSPENDED"})
        => /\ pc' = "notReady"
           /\ err'.msg = "Instance already exists with state. Please run again"
           /\ err'.cause = instResp'.Status]_vars

\* the wait ended on SUSPENDED after earlier passes that kept polling
C5_Witness ==
    /\ pc = "notReady"
    /\ instResp = [err |-> "", Status |-> "SUSPENDED"]
    /\ totalTime >= ReadyInterval
    /\ err.cause = "SUSPENDED"

\* C6: a pass of the readiness poll whose describe call succeeds with a status
\* other than RUNNING and the four fatal ones (PROVISIONING, STAGING, empty,
\* unrecognized) reports not-done without error: the poll sleeps and goes on.
C6_PendingKeepsPolling ==
    [][(DescribePass /\ instResp'.err = ""
            /\ instResp'.Status \notin
                 {"RUNNING", "STOPPING", "STOPPED", "TERMINATED", "SUSPENDED"})
        => /\ pc' = "wait"
           /\ err' = Nil
           /\ totalTime' = totalTime + ReadyInterval]_vars

\* the console condition holds an answer with text in it
TextFetched == pc = "fetched" /\ serialResp.err = ""

HasMarker(text) == Contains(text, <<"USERDATA", SP, "END">>)

\* C7: a pass of the console poll whose text lacks the completion marker leaves
\* the result as it was and reports not-done, whatever else the text holds.
C7_NoParseBeforeMarker ==
    [][(TextFetched /\ ~HasMarker(serialResp.Contents))
        => /\ output' = output
           /\ pc' = "console"
           /\ err' = Nil
           /\ totalTime' = totalTime + ConsoleInterval]_vars

\* after an earlier pass without marker, the console text holds a failure line
\* and an "Unable to reach" line but no marker, and nothing is on the result
C7_Witness ==
    /\ TextFetched
    /\ totalTime >= ConsoleInterval
    /\ ~HasMarker(serialResp.Contents)
    /\ Contains(serialResp.Contents, <<"Failed">>)
    /\ Contains(serialResp.Contents, <<"Unable", SP, "to", SP, "reach", SP>>)
    /\ output = EmptyOutput

\* the console poll found the marker and parsed serialResp
ParseDone ==
    \/ pc = "analysed" /\ err = Nil
    \/ pc = "returned" /\ path = "analysed"

\* the host of a line "Unable to reach h", as a one-element list; empty otherwise
HostOf(line) ==
    IF Len(line) = 7 /\ SubSeq(line, 1, 6) = <<"Unable", SP, "to", SP, "reach", SP>>
    THEN <<<<line[7]>>>>
    ELSE <<>>

RECURSIVE HostTokens(_)
HostTokens(ls) ==
    IF ls = <<>> THEN <<>> ELSE HostOf(Head(ls)) \o HostTokens(Tail(ls))

\* C8: after the parse the unreachable endpoints of the result are the host
\* tokens of the text's "Unable to reach" lines, in order of appearance.
C8_UnreachableAreHostTokens ==
    ParseDone
        => output.failures = HostTokens(SplitLines(serialResp.Contents, <<>>))

\* a line holding one of the four failure indicators
FailureLine(line) ==
    \/ Contains(line, <<"Cannot">>)
    \/ Contains(line, <<"Could", SP, "not">>)
    \/ Contains(line, <<"Failed">>)
    \/ Contains(line, <<"command", SP, "not", SP, "found">>)

\* the number of failure lines of a console text
FailureLines(text) ==
    Cardinality({i \in 1..Len(SplitLines(text, <<>>)) :
                    FailureLine(SplitLines(text, <<>>)[i])})

\* C9: after the parse the result holds exactly one connectivity failure when
\* the text has one or more failure lines, and none when it has no such line.
C9_OneAggregateFailure ==
    ParseDone
        => output.exceptions =
              IF FailureLines(serialResp.Contents) >= 1
              THEN <<EgressURLError>>
              ELSE <<>>

\* a parsed text with two failure lines left one failure on the result
C9_Witness ==
    /\ ParseDone
    /\ FailureLines(serialResp.Contents) = 2
    /\ Len(output.exceptions) = 1

\* C10: a run whose instance reached RUNNING and whose console poll ran to its
\* deadline without a marker returns a result with the timeout error recorded
\* and no unreachable endpoint, after exactly one stop call.
C10_AnalysisTimeout ==
    (pc = "returned" /\ path = "analysisFailed" /\ err = TimedOut)
        => /\ \E i \in 1..Len(output.errors) : output.errors[i] = TimedOut
           /\ output.failures = <<>>
           /\ stopCalls = 1
           /\ instResp.Status = "RUNNING"

\* the console poll slept up to its deadline and the run returned
C10_Witness ==
    /\ pc = "returned"
    /\ path = "analysisFailed"
    /\ err = TimedOut
    /\ totalTime >= ConsoleTimeout
    /\ stopCalls = 1

\* xs is the beginning of ys
IsPrefix(xs, ys) == Len(xs) <= Len(ys) /\ SubSeq(ys, 1, Len(xs)) = xs

\* C11: a stop call is the only one of its run and validateEgress returns right
\* after it; what the result held before is still there, unchanged and in
\* place, and when the call failed its error is among the errors added.
C11_StopErrorRecorded ==
    [][(stopCalls' = stopCalls + 1)
        => /\ stopCalls = 0
           /\ pc' = "returned"
           /\ output'.exceptions = output.exceptions
           /\ output'.failures = output.failures
           /\ IsPrefix(output.errors, output'.errors)
           /\ (stopResp' # ""
                 => \E i \in (Len(output.errors) + 1)..Len(output'.errors) :
                       output'.errors[i] = E(stopResp', ""))]_vars

\* the stop call failed after an analysis that recorded a connectivity failure
\* and an unreachable endpoint; the run returned with all three on the result
C11_Witness ==
    /\ pc = "returned"
    /\ path = "analysed"
    /\ stopResp # ""
    /\ stopCalls = 1
    /\ Len(output.exceptions) = 1
    /\ Len(output.failures) >= 1
    /\ output.errors = <<E(stopResp, "")>>

\* C12: a poll whose condition never reports done and never fails sleeps the
\* fixed interval after every pass and gives up with the timeout error when the
\* time slept has reached the deadline: not before it and less than one interval
\* after it, in the readiness wait and in the console wait.
C12_TimeoutAtDeadline ==
    /\ [](/\ (pc = "notReady" /\ err = TimedOut)
               => (ReadyTimeout <= totalTime /\ totalTime < ReadyTimeout + ReadyInterval)
          /\ (pc = "analysed" /\ err = TimedOut)
               => (ConsoleTimeout <= totalTime
                     /\ totalTime < ConsoleTimeout + ConsoleInterval))
    /\ [][/\ (pc = "wait" /\ pc' = "wait") => totalTime' = totalTime + ReadyInterval
          /\ (pc = "fetched" /\ pc' = "console")
               => totalTime' = totalTime + ConsoleInterval]_vars

\* the readiness wait gave up after passes that all saw a pending status
C12_Witness ==
    /\ pc = "notReady"
    /\ err = TimedOut
    /\ totalTime = ReadyTimeout
    /\ instResp = [err |-> "", Status |-> "PROVISIONING"]

\* C13: once ctx is cancelled during a polling phase the poll loop does not
\* sleep again.
C13_NoSleepAfterCancel ==
    [][(cancelled /\ pc \in {"wait", "fetched"})
        => ~(pc' \in {"wait", "console"} /\ totalTime' > totalTime)]_vars

\* C14: a console fetch is only made after a describe call observed RUNNING; a
\* run whose readiness wait failed makes no console fetch and stops the
\* instance; no stop call is made while create, the readiness wait or the
\* console analysis is under way.
C14_StepOrder ==
    /\ fetchIssued => instResp = [err |-> "", Status |-> "RUNNING"]
    /\ pc \in {"insert", "getFingerprint", "setLabels", "createFailed"}
          => (instResp = NoInst /\ ~fetchIssued)
    /\ pc = "notReady" => (~fetchIssued /\ stopCalls = 0)
    /\ (pc = "returned" /\ path = "notReady") => (~fetchIssued /\ stopCalls = 1)
    /\ pc \in {"insert", "getFingerprint", "setLabels", "wait", "console",
               "fetched", "analysed"} => stopCalls = 0

\* the readiness wait timed out on a pending instance and the run returned
\* after the stop call, without a console fetch
C14_Witness ==
    /\ pc = "returned"
    /\ path = "notReady"
    /\ instResp = [err |-> "", Status |-> "STAGING"]
    /\ err = TimedOut
    /\ ~fetchIssued
    /\ stopCalls = 1

\* C15: a failed console fetch ends the console poll on that pass with the
\* error of the fetch, without a sleep and with nothing added to the result;
\* the run then returns with that error recorded, no connectivity failure, no
\* unreachable endpoint, and one stop call.
C15_FetchErrorAborts ==
    /\ [][(pc = "fetched" /\ serialResp.err # "")
           => /\ pc' = "analysed"
              /\ err' = E(serialResp.err, "")
              /\ output' = output
              /\ totalTime' = totalTime
              /\ serialResp' = serialResp]_vars
    /\ []((pc = "returned" /\ path = "analysisFailed" /\ serialResp.err # "")
           => /\ err = E(serialResp.err, "")
              /\ \E i \in 1..Len(output.errors) : output.errors[i] = err
              /\ output.exceptions = <<>>
              /\ output.failures = <<>>
              /\ stopCalls = 1)

\* the fetch failed on a later pass and the run returned after the stop call
C15_Witness ==
    /\ pc = "returned"
    /\ path = "analysisFailed"
    /\ serialResp.err # ""
    /\ totalTime >= ConsoleInterval
    /\ output.errors[1] = E(serialResp.err, "")
    /\ stopCalls = 1

\* C16 as stated: the readiness wait of a run gives up at the timeout of its
\* request.
C16_ReadyDeadlineIsRequestTimeout ==
    (pc = "notReady" /\ err = TimedOut)
        => (timeout <= totalTime /\ totalTime < timeout + ReadyInterval)

\* C16 as amended: the readiness wait gives up after the fixed two minutes,
\* whatever the timeout of the request.
C16_ReadyDeadlineFixed ==
    (pc = "notReady" /\ err = TimedOut) => totalTime = ReadyTimeout

\* a run asked for with a timeout of 300 seconds gave up its readiness wait
\* after 120
C16_Witness ==
    /\ pc = "notReady"
    /\ err = TimedOut
    /\ timeout = 300
    /\ totalTime = 120

\* C17: a describe call that fails, for whatever reason, ends the readiness
\* wait on that pass with the error of missing permissions; the wait never ends
\* with a bare describe error.
C17_DescribeErrorIsPermissionDenied ==
    /\ [][(DescribePass /\ instResp'.err # "")
           => /\ pc' = "notReady"
              /\ err' = E("missing required permissions for account",
                          instResp'.err)
              /\ totalTime' = totalTime]_vars
    /\ [](pc = "notReady"
           => err.msg \in {"missing required permissions for account",
                           "Instance already exists with state. Please run again",
                           "timed out waiting for the condition"})

\* after earlier passes, a describe call made with a cancelled ctx failed and
\* the wait ended with the error of missing permissions
C17_Witness ==
    /\ pc = "notReady"
    /\ instResp.err = "context canceled"
    /\ totalTime >= ReadyInterval
    /\ err = E("missing required permissions for account", "context canceled")

\* C18: every run of validateEgress eventually returns.
C18_EveryRunReturns == <>(pc = "returned")

\* what this run added to c.output
RecordedInThisRun ==
    [errors |-> SubSeq(output.errors, Len(prior.errors) + 1, Len(output.errors)),
     exceptions |-> SubSeq(output.exceptions, Len(prior.exceptions) + 1,
                           Len(output.exceptions)),
     failures |-> SubSeq(output.failures, Len(prior.failures) + 1,
                         Len(output.failures))]

\* C19: the result a run returns holds what that run recorded and nothing else.
C19_ResultOfThisRunOnly == pc = "returned" => output = RecordedInThisRun

====
